---- MODULE Spec2Model ----
(***************************************************************************)
(* A model of the grid bot's trading control plane: the pooled position    *)
(* tracker (position/tracker.py), the shared order manager                 *)
(* (orders/manager.py), the risk manager (risk/manager.py), the per-pair   *)
(* grid engine (strategy/grid_engine.py), the venue as the paper and live  *)
(* connectors present it (exchange/), and the orchestrator's control flow  *)
(* (bot/orchestrator.py).                                                  *)
(*                                                                         *)
(* Money and prices are Python floats in the source.  The model computes   *)
(* with exact rationals [n, d] in lowest terms, so a ledger identity is    *)
(* checked as an identity of real numbers.                                 *)
(***************************************************************************)
EXTENDS Integers, Sequences, FiniteSets, TLC

VARIABLES
    pool,        \* MultiPairPositionTracker._pool (PoolState)
    pairs,       \* MultiPairPositionTracker._pairs: symbol -> PairPositionState
    buy_fees,    \* history: the sum of the fees of the buy fills recorded so far
    nfills,      \* history: the number of record_fill calls made so far
    venue,       \* the venue's order book: order id -> order (status "absent": no such id)
    next_oid,    \* the id the venue gives the next order it accepts
    ticker,      \* symbol -> the last trade price get_ticker returns
    journal,     \* the orders table: order id -> row (status "none": no row)
    open_order_ids, \* OrderManager._open_order_ids (the live set)
    risk,        \* RiskManager: _is_halted, _halted_pairs, _peak_equity
    trend_down,  \* the symbols for which TrendFilter.should_allow_buy is false
    grid_engines,   \* symbol -> that pair's GridEngine (_levels)
    orch,        \* BotOrchestrator: _status, the keys of _grid_engines, and
                 \* paper_trading.enabled of its configuration
    call,        \* the adapter call in flight at the live connector: the
                 \* method, the attempts made, the errors met, its status
    clock,       \* time.time(), in seconds
    hist,        \* history: fed, the equity values fed to the risk manager
                 \* since it was built; shifted_at, per pair the clock at the
                 \* engine's last shift of its grid bounds (-1: none yet),
                 \* shift_price the price that shift was made for and
                 \* shift_dir its direction (1 up, -1 down)
    last         \* the last step: the operation called and what it returned or
                 \* raised, or the event of the venue or of the trend filter

trackerVars == <<pool, pairs, buy_fees, nfills>>
venueVars == <<venue, next_oid, ticker>>
managerVars == <<journal, open_order_ids>>
vars == <<pool, pairs, buy_fees, nfills, venue, next_oid, ticker, journal,
          open_order_ids, risk, trend_down, grid_engines, orch, call, clock, hist,
          last>>

(***************************************************************************)
(* Bounds and input sets.                                                  *)
(***************************************************************************)
\* The longest sequence of record_fill calls explored.
MaxFills == 3

\* The configured trading pairs.
Symbols == {"A", "B"}

Sides == {"buy", "sell"}

\* The amounts, prices and fees a fill may carry (positive, positive, >= 0).
FillAmounts == {1, 2}
FillPrices == {2, 3}
FillFees == {0, 1}

\* initial_usd handed to the tracker's constructor.
InitialUsd == 20

\* The venue accepts this many orders in a run; it refuses any further one.
MaxOrders == 2
OrderIds == 1..MaxOrders

\* GridConfig: the band and the number of levels (arithmetic spacing).  The
\* band is chosen so that every level price is a whole number with NumLevels
\* or NumLevels + 1 levels.
GridLower == 10
GridUpper == 70
NumLevels == 3

\* RiskConfig.
MaxOpenOrders == 2
MaxPositionUsd == 50
MaxPositionUsdPerPair == 30
StopLossPct == 50
TakeProfitPct == 50
MaxDrawdownPct == 10

\* The last trade prices the venue may report.
TickerPrices == {25, 55}

\* The last prices the venue moves between while the tracker holds base of
\* the pairs of HeldSymbols
\* (every fill of that run is at the venue's last price), and the one of
\* them at which the buys fill (one price, so that the entry price and the
\* equity stay whole numbers).
MovePrices == {1, 3}
HeldSymbols == {"A"}
EntryPrice == 3

\* PositionStopLossConfig: threshold_pct and cooldown_secs.
PositionStopPct == 50
StopCooldownSecs == 2

\* initial_usd of the tracker, and the price the held pair is bought at, in
\* the runs of the loop's per-pair step.
LoopUsd == 100
LoopEntryPrice == 55

\* The pair that is bought, and whose price moves, in those runs.
LoopHeld == {"B"}

\* The equity values fed to check_drawdown.
Equities == {0, 90, 100}

\* The prices fed to check_stop_loss and check_take_profit.
CheckPrices == {5, 25, 110}

\* GridConfig.trailing_cooldown_secs, and how far the clock runs.
CooldownSecs == 2
ClockSteps == 3

\* The calls of start() that may be suspended at the same time.
MaxStarts == 2

\* GridConfig.trailing_trigger_pct and trailing_rebalance_pct (the defaults),
\* and the pairs whose grid has trailing_enabled.
TrailingTriggerPct == 75
TrailingRebalancePct == 50
TrailingEnabled == {"A"}

\* max_retries of every retry_with_backoff decoration of the live connector.
MaxRetries == 3

\* The prices fed to check_trailing, and the upper bound up to which a grid
\* is followed.
TrailPrices == {20, 40, 55, 60, 90}
MaxUpper == 130

(***************************************************************************)
(* Exact rational arithmetic standing for the source's float arithmetic.   *)
(***************************************************************************)
RECURSIVE GCD(_, _)
GCD(a, b) == IF b = 0 THEN a ELSE GCD(b, a % b)

Abs(x) == IF x < 0 THEN -x ELSE x

\* n / d in lowest terms, with a positive denominator.
Rat(n, d) ==
    LET lowest[p \in Int \X Int] ==
            LET s == IF p[2] < 0 THEN -1 ELSE 1
                g == GCD(Abs(p[1]), Abs(p[2]))
            IN  [n |-> (s * p[1]) \div g, d |-> (s * p[2]) \div g]
    IN  lowest[<<n, d>>]

RInt(i) == [n |-> i, d |-> 1]

RAdd(x, y) == Rat(x.n * y.d + y.n * x.d, x.d * y.d)
RSub(x, y) == Rat(x.n * y.d - y.n * x.d, x.d * y.d)
RMul(x, y) == Rat(x.n * y.n, x.d * y.d)
\* x / y, for y # 0.
RDiv(x, y) == Rat(x.n * y.d, x.d * y.n)
RPos(x) == x.n > 0
RGeq(x, y) == x.n * y.d >= y.n * x.d

RECURSIVE RSum(_, _)
\* The sum of f[s] over the finite set S.
RSum(f, S) ==
    IF S = {} THEN RInt(0)
    ELSE LET s == CHOOSE t \in S : TRUE
         IN  RAdd(f[s], RSum(f, S \ {s}))

(***************************************************************************)
(* position/tracker.py                                                     *)
(***************************************************************************)
\* PairPositionState() as the constructor builds it.
NewPairState ==
    [base_balance |-> RInt(0), avg_entry_price |-> RInt(0),
     realized_pnl |-> RInt(0), unrealized_pnl |-> RInt(0), trade_count |-> 0]

\* PoolState(available_usd=initial_usd).
NewPoolState(initial_usd) ==
    [available_usd |-> RInt(initial_usd), secured_profits |-> RInt(0),
     total_fees |-> RInt(0), total_trade_count |-> 0]

\* The buy branch of record_fill: the pair's state after the fill.
BuyPair(pair, amount, price) ==
    LET total_cost == RMul(pair.base_balance, pair.avg_entry_price)
        new_cost == RMul(amount, price)
        base == RAdd(pair.base_balance, amount)
    IN  [pair EXCEPT
            !.base_balance = base,
            !.avg_entry_price =
                IF RPos(base) THEN RDiv(RAdd(total_cost, new_cost), base)
                ELSE pair.avg_entry_price]

\* profit of a sell, computed against the entry price before the fill.
SellProfit(pair, amount, price, fee) ==
    RSub(RMul(RSub(price, pair.avg_entry_price), amount), fee)

\* The sell branch of record_fill: the pair's state after the fill.
SellPair(pair, amount, price, fee) ==
    [pair EXCEPT
        !.realized_pnl = RAdd(pair.realized_pnl, SellProfit(pair, amount, price, fee)),
        !.base_balance = RSub(pair.base_balance, amount)]

\* A faulty sell branch: a positive profit is added to secured_profits but
\* not taken out of available_usd.
SellPoolProfitTwice(p, pair, amount, price, fee) ==
    LET profit == SellProfit(pair, amount, price, fee)
        avail == RAdd(p.available_usd, RSub(RMul(amount, price), fee))
    IN  IF RPos(profit)
        THEN [p EXCEPT !.available_usd = avail,
                       !.secured_profits = RAdd(p.secured_profits, profit)]
        ELSE [p EXCEPT !.available_usd = avail]

\* The pool after the sell branch: proceeds in, a positive profit moved to
\* secured_profits.
SellPool(p, pair, amount, price, fee) ==
    LET profit == SellProfit(pair, amount, price, fee)
        avail == RAdd(p.available_usd, RSub(RMul(amount, price), fee))
    IN  IF RPos(profit)
        THEN [p EXCEPT !.available_usd = RSub(avail, profit),
                       !.secured_profits = RAdd(p.secured_profits, profit)]
        ELSE [p EXCEPT !.available_usd = avail]

\* The pool after the buy branch.
BuyPool(p, amount, price, fee) ==
    [p EXCEPT !.available_usd =
        RSub(p.available_usd, RAdd(RMul(amount, price), fee))]

\* record_fill(symbol, side, amount, price, fee): the tracker after the call.
RecordFill(p, ps, symbol, side, amount, price, fee) ==
    LET pair == ps[symbol]
        pair1 == IF side = "buy" THEN BuyPair(pair, amount, price)
                 ELSE IF side = "sell" THEN SellPair(pair, amount, price, fee)
                 ELSE pair
        pool1 == IF side = "buy" THEN BuyPool(p, amount, price, fee)
                 ELSE IF side = "sell" THEN SellPool(p, pair, amount, price, fee)
                 ELSE p
    IN  [pool |-> [pool1 EXCEPT
                      !.total_fees = RAdd(pool1.total_fees, fee),
                      !.total_trade_count = pool1.total_trade_count + 1],
         pairs |-> [ps EXCEPT
                      ![symbol] = [pair1 EXCEPT !.trade_count = pair1.trade_count + 1]]]

\* total_base_value_usd: the sum over pairs of base_balance * avg_entry_price.
TotalBaseValueUsd(ps) ==
    RSum([s \in Symbols |-> RMul(ps[s].base_balance, ps[s].avg_entry_price)], Symbols)

\* update_unrealized_pnl(symbol), the venue's last price being last_price:
\* (last - avg_entry_price) * base_balance for a pair that holds base, else 0.
UpdateUnrealizedPnl(ps, symbol, last_price) ==
    [ps EXCEPT ![symbol].unrealized_pnl =
        IF RPos(ps[symbol].base_balance)
        THEN RMul(RSub(RInt(last_price), ps[symbol].avg_entry_price),
                  ps[symbol].base_balance)
        ELSE RInt(0)]

\* total_equity_usd: available_usd + secured_profits + the sum over pairs of
\* base_balance * avg_entry_price + unrealized_pnl.
TotalEquityUsd(p, ps) ==
    RAdd(RAdd(p.available_usd, p.secured_profits),
         RSum([s \in Symbols |->
                  RAdd(RMul(ps[s].base_balance, ps[s].avg_entry_price),
                       ps[s].unrealized_pnl)], Symbols))

\* The sum over pairs of realized_pnl (the aggregated view's realized_pnl).
TotalRealizedPnl(ps) ==
    RSum([s \in Symbols |-> ps[s].realized_pnl], Symbols)


(***************************************************************************)
(* The venue (exchange/paper_connector.py, exchange/connector.py).         *)
(***************************************************************************)
NoOrder == [symbol |-> "", side |-> "", price |-> 0, status |-> "absent"]

\* get_open_orders(symbol): the ids of the open orders of that symbol.
VenueOpenIds(v, symbol) ==
    {o \in OrderIds : v[o].status = "open" /\ v[o].symbol = symbol}

\* place_limit_order: the venue files the order as open under a fresh id.
VenuePlace(v, oid, symbol, side, price) ==
    [v EXCEPT ![oid] = [symbol |-> symbol, side |-> side, price |-> price,
                        status |-> "open"]]

(***************************************************************************)
(* orders/manager.py, db/repositories.py (the orders table).               *)
(***************************************************************************)
NoRow == [status |-> "none", level |-> 0]

\* OrderRepository.update_status: an UPDATE ... WHERE exchange_order_id = ?;
\* it changes nothing when the table holds no such row.
UpdateStatus(j, oid, status) ==
    IF j[oid].status = "none" THEN j ELSE [j EXCEPT ![oid].status = status]

RECURSIVE UpdateStatusAll(_, _, _)
\* update_status applied to every id of ids.
UpdateStatusAll(j, ids, status) ==
    IF ids = {} THEN j
    ELSE LET o == CHOOSE x \in ids : TRUE
         IN  UpdateStatusAll(UpdateStatus(j, o, status), ids \ {o}, status)

\* An engine or manager step works on the venue, the journal and the live set
\* together: st = [venue, next_oid, journal, live].
ManagerState == [venue |-> venue, next_oid |-> next_oid,
                 journal |-> journal, open_order_ids |-> open_order_ids]

\* The venue takes another order (place_limit_order returns) or refuses it
\* (place_limit_order raises, and so does place_grid_order).
VenueAccepts(st) == st.next_oid \in OrderIds

\* place_grid_order(symbol, side, amount, price, grid_level_index) when the
\* venue accepts: the order is open at the venue, its row is inserted with
\* status open, its id joins the live set.  (level_repo.update_status updates
\* a grid_levels row; no code inserts one, so it changes nothing.)
PlaceGridOrder(st, symbol, side, price, level) ==
    LET oid == st.next_oid
    IN  [venue |-> VenuePlace(st.venue, oid, symbol, side, price),
         next_oid |-> oid + 1,
         journal |-> [st.journal EXCEPT ![oid] = [status |-> "open", level |-> level]],
         open_order_ids |-> st.open_order_ids \cup {oid}]

\* The ids check_fills finds filled: get_order is asked about every live id,
\* whatever the symbol the caller passed.
FilledIds(st, symbol) ==
    {o \in st.open_order_ids : st.venue[o].status \in {"closed", "filled"}}

\* check_fills(symbol): the filled ids get status filled in the journal and
\* leave the live set.  (The venues of the model fill an order whole, so no
\* order is partially_filled.)
CheckFills(st, symbol) ==
    [st EXCEPT !.journal = UpdateStatusAll(st.journal, FilledIds(st, symbol), "filled"),
               !.open_order_ids = st.open_order_ids \ FilledIds(st, symbol)]

\* What the venue may answer to cancel_order(oid): "ok" (cancelled, true),
\* "not_found" (false) or "error" (the call raises).  The paper venue answers
\* true for every id it has filed, whatever the order's status, and false for
\* any other id; the live venue cancels an open order, reports an order it no
\* longer holds open as not found, and may fail.
CancelAnswers(v, oid) ==
    CASE v[oid].status = "open" -> {"ok", "error"}
      [] v[oid].status = "absent" -> {"not_found", "error"}
      [] OTHER -> {"ok", "not_found", "error"}

\* The venue after cancel_order(oid) answered: an "ok" leaves the order
\* cancelled (the paper venue overwrites the status of a closed order too).
VenueCancel(v, oid, answer) ==
    IF answer = "ok" THEN [v EXCEPT ![oid].status = "cancelled"] ELSE v

\* OrderManager.cancel_order(order_id, symbol) when the venue answered
\* "ok" or "not_found": only on success is the row set to cancelled and the id
\* dropped from the live set.
CancelOrder(st, oid, answer) ==
    IF answer = "ok"
    THEN [st EXCEPT !.venue = VenueCancel(st.venue, oid, answer),
                    !.journal = UpdateStatus(st.journal, oid, "cancelled"),
                    !.open_order_ids = st.open_order_ids \ {oid}]
    ELSE st

\* A faulty reconcile: the stale ids are marked cancelled but the venue's set
\* is merged into the live set instead of replacing it.
ReconcileMerges(st, symbol) ==
    LET exchange_ids == VenueOpenIds(st.venue, symbol)
        stale == st.open_order_ids \ exchange_ids
    IN  [st EXCEPT !.journal = UpdateStatusAll(st.journal, stale, "cancelled"),
                   !.open_order_ids = st.open_order_ids \cup exchange_ids]

\* reconcile_with_exchange(symbol): every live id the venue does not report
\* open for the symbol is set to cancelled in the journal, and the live set
\* becomes the set the venue reported.
ReconcileWithExchange(st, symbol) ==
    LET exchange_ids == VenueOpenIds(st.venue, symbol)
        stale == st.open_order_ids \ exchange_ids
    IN  [st EXCEPT !.journal = UpdateStatusAll(st.journal, stale, "cancelled"),
                   !.open_order_ids = exchange_ids]

\* open_order_count.
OpenOrderCount(lv) == Cardinality(lv)

(***************************************************************************)
(* utils/decorators.py, exchange/connector.py                              *)
(***************************************************************************)
\* The methods of CoinbaseConnector under retry_with_backoff.
AdapterMethods ==
    {"get_ticker", "get_balance", "place_limit_order", "place_market_order",
     "cancel_order", "get_order", "get_open_orders", "fetch_ohlcv"}

\* The methods decorated with retryable_exceptions = (ccxt.NetworkError,
\* ccxt.ExchangeNotAvailable); the others take the default, (Exception,).
TransientOnlyMethods == {"get_ticker", "place_limit_order", "place_market_order"}

\* What one attempt at the venue may end with: a result, a transient error
\* (ccxt.NetworkError, of which ExchangeNotAvailable is a kind), any other
\* error, or, for cancel_order, ccxt.OrderNotFound.
AttemptOutcomes(method) ==
    {"ok", "network", "other"}
        \cup (IF method = "cancel_order" THEN {"not_found"} ELSE {})

\* No adapter call in flight.
NoCall == [method |-> "", attempt |-> 0, attempts |-> 0, errors |-> {},
           status |-> "idle"]

\* `except retryable_exceptions`: does the wrapper catch the error.
Retryable(method, outcome) ==
    outcome \in {"network", "other"}
        /\ (method \in TransientOnlyMethods => outcome = "network")

\* One pass of the wrapper's loop `for attempt in range(max_retries + 1)`:
\* the method is awaited once; a result is returned (cancel_order turns
\* OrderNotFound into False itself); an error the wrapper does not catch
\* leaves it; an error it catches ends the call when attempt = max_retries
\* and otherwise leads, after the sleep, to the next pass.
WrapperPass(c, outcome) ==
    LET c1 == [c EXCEPT !.attempts = c.attempts + 1]
    IN  IF outcome \in {"ok", "not_found"} THEN [c1 EXCEPT !.status = "returned"]
        ELSE LET c2 == [c1 EXCEPT !.errors = c.errors \cup {outcome}]
             IN  IF ~Retryable(c.method, outcome) THEN [c2 EXCEPT !.status = "raised"]
                 ELSE IF c.attempt = MaxRetries THEN [c2 EXCEPT !.status = "raised"]
                 ELSE [c2 EXCEPT !.attempt = c.attempt + 1]

(***************************************************************************)
(* risk/manager.py                                                         *)
(***************************************************************************)
NewRisk == [is_halted |-> FALSE, halted_pairs |-> {}, peak_equity |-> 0]

\* What can_place_order reads besides the live set: the risk manager itself,
\* the trend filter and the position tracker.
RiskContext == [risk |-> risk, trend_down |-> trend_down,
                pool |-> pool, pairs |-> pairs]

\* A faulty can_place_order: the global halt is not looked at.
CanPlaceOrderNoGlobalHalt(rc, lv, symbol, side, price, amount) ==
    /\ symbol \notin rc.risk.halted_pairs
    /\ ~(OpenOrderCount(lv) >= MaxOpenOrders)

\* A faulty can_place_order: the trend filter is not asked.
CanPlaceOrderNoTrend(rc, lv, symbol, side, price, amount) ==
    /\ ~rc.risk.is_halted
    /\ symbol \notin rc.risk.halted_pairs
    /\ ~(OpenOrderCount(lv) >= MaxOpenOrders)
    /\ side = "buy" =>
        /\ LET cost == IF RPos(amount) THEN RMul(amount, price) ELSE RInt(0)
           IN  ~(RPos(cost) /\ ~RGeq(rc.pool.available_usd, cost))
        /\ ~RGeq(RMul(rc.pairs[symbol].base_balance, rc.pairs[symbol].avg_entry_price),
                 RInt(MaxPositionUsdPerPair))
        /\ ~RGeq(TotalBaseValueUsd(rc.pairs), RInt(MaxPositionUsd))

\* can_place_order(symbol, side, price, amount=0.0).  The orchestrator builds
\* the RiskManager with a trend filter and without a fear-greed provider
\* (orchestrator.py:182-185), so the extreme-fear gate is never taken.
CanPlaceOrder(rc, lv, symbol, side, price, amount) ==
    /\ ~rc.risk.is_halted
    /\ symbol \notin rc.risk.halted_pairs
    /\ ~(OpenOrderCount(lv) >= MaxOpenOrders)
    /\ ~(side = "buy" /\ symbol \in rc.trend_down)
    /\ side = "buy" =>
        /\ LET cost == IF RPos(amount) THEN RMul(amount, price) ELSE RInt(0)
           IN  ~(RPos(cost) /\ ~RGeq(rc.pool.available_usd, cost))
        /\ ~RGeq(RMul(rc.pairs[symbol].base_balance, rc.pairs[symbol].avg_entry_price),
                 RInt(MaxPositionUsdPerPair))
        /\ ~RGeq(TotalBaseValueUsd(rc.pairs), RInt(MaxPositionUsd))

\* A faulty stop-loss test: the price must be below the stop price.
StopLossHitStrict(current_price, lower_grid) ==
    current_price * 100 < lower_grid * (100 - StopLossPct)

\* check_stop_loss: current_price <= lower_grid * (1 - stop_loss_pct / 100).
StopLossHit(current_price, lower_grid) ==
    current_price * 100 <= lower_grid * (100 - StopLossPct)

\* check_take_profit: current_price >= upper_grid * (1 + take_profit_pct / 100).
TakeProfitHit(current_price, upper_grid) ==
    current_price * 100 >= upper_grid * (100 + TakeProfitPct)

\* check_drawdown(current_equity): the peak after the call, and whether the
\* drawdown from it reaches max_drawdown_pct.
DrawdownPeak(rk, current_equity) ==
    IF rk.peak_equity > current_equity THEN rk.peak_equity ELSE current_equity

\* A faulty drawdown test: the drawdown must exceed max_drawdown_pct.
DrawdownHitStrict(rk, current_equity) ==
    LET peak == DrawdownPeak(rk, current_equity)
    IN  peak > 0 /\ (peak - current_equity) * 100 > MaxDrawdownPct * peak

DrawdownHit(rk, current_equity) ==
    LET peak == DrawdownPeak(rk, current_equity)
    IN  peak > 0 /\ (peak - current_equity) * 100 >= MaxDrawdownPct * peak

\* The risk manager after check_drawdown(current_equity).
CheckDrawdown(rk, current_equity) ==
    [rk EXCEPT !.peak_equity = DrawdownPeak(rk, current_equity),
               !.is_halted = rk.is_halted \/ DrawdownHit(rk, current_equity)]

\* reset_halt.
ResetHalt(rk) == [rk EXCEPT !.is_halted = FALSE, !.halted_pairs = {}]

(***************************************************************************)
(* strategy/grid_math.py, strategy/grid_engine.py                          *)
(***************************************************************************)
\* compute_grid_levels(lower, upper, num_levels, "arithmetic"): numpy's
\* linspace, lower + i * (upper - lower) / (num_levels - 1).
ComputeGridLevels(lower, upper, n) ==
    [i \in 1..n |-> lower + ((i - 1) * (upper - lower)) \div (n - 1)]

\* determine_order_sides: buy below the current price, sell at or above it.
DetermineOrderSide(price, current_price) ==
    IF price < current_price THEN "buy" ELSE "sell"

\* The lattice initialize_grid builds: GridLevel(index, price, side), status
\* pending, no order id (0 stands for None).  Level index i is element i + 1.
\* round(p, 2) leaves the whole-number prices of the model as they are.
NewLevelsIn(lower, upper, current_price) ==
    LET prices == ComputeGridLevels(lower, upper, NumLevels)
    IN  [i \in 1..NumLevels |->
            [index |-> i - 1, price |-> prices[i],
             side |-> DetermineOrderSide(prices[i], current_price),
             status |-> "pending", exchange_order_id |-> 0]]

\* The lattice over the band the configuration file gives.
NewLevels(current_price) == NewLevelsIn(GridLower, GridUpper, current_price)

\* GridEngine.__init__: no levels yet, no shift yet.  lower_price and
\* upper_price are the fields of the engine's GridConfig, which check_trailing
\* rewrites; they start as the configuration file gives them.
NewEngine ==
    [levels |-> <<>>, lower_price |-> GridLower, upper_price |-> GridUpper,
     trailing_shift_count |-> 0, last_trailing_shift_time |-> 0]

\* The engine's admission call, self._risk_mgr.can_place_order(side, price)
\* (grid_engine.py:62 and :99).  RiskManager.can_place_order is declared
\* (self, symbol, side, price, amount=0.0) (risk/manager.py:34-36): the two
\* positional arguments bind symbol and side, the required parameter price
\* gets no value, and Python raises TypeError before the body runs.  The
\* answer is "admit", "reject" or "TypeError".
EngineAdmit(rc, lv, symbol, side, price) == "TypeError"

\* An engine step works on es = [st, levels, placed, result]: the manager
\* state, the engine's levels, the orders placed so far and "ok" or the
\* exception that ended the step.
RECURSIVE InitLoop(_, _, _, _)
\* The placement loop of initialize_grid from level element i on: a refused
\* level is skipped; an exception (of the admission call or of
\* place_grid_order) leaves the loop and the method.
InitLoop(es, i, rc, symbol) ==
    IF i > Len(es.levels) \/ es.result # "ok" THEN es
    ELSE LET level == es.levels[i]
             a == EngineAdmit(rc, es.st.open_order_ids, symbol, level.side, level.price)
         IN  IF a = "TypeError" THEN [es EXCEPT !.result = "TypeError"]
             ELSE IF a = "reject" THEN InitLoop(es, i + 1, rc, symbol)
             ELSE IF ~VenueAccepts(es.st) THEN [es EXCEPT !.result = "venue_error"]
             ELSE InitLoop(
                    [es EXCEPT
                        !.st = PlaceGridOrder(es.st, symbol, level.side,
                                              level.price, level.index),
                        !.levels[i].exchange_order_id = es.st.next_oid,
                        !.levels[i].status = "order_placed",
                        !.placed = es.placed + 1],
                    i + 1, rc, symbol)

\* initialize_grid: a fresh lattice with sides by the ticker's last price,
\* then the placement loop.
InitializeGrid(st, rc, symbol, lower, upper, current_price) ==
    InitLoop([st |-> st, levels |-> NewLevelsIn(lower, upper, current_price),
              placed |-> 0, result |-> "ok"], 1, rc, symbol)

\* on_fill(filled_level) for level element i: the level is filled; the mirror
\* goes to index + 1 as a sell after a buy, to index - 1 as a buy after a sell,
\* when that index is in the grid and the admission call admits it.
OnFill(es, i, rc, symbol) ==
    LET opposite_side == IF es.levels[i].side = "buy" THEN "sell" ELSE "buy"
        target_index == IF opposite_side = "sell" THEN es.levels[i].index + 1
                        ELSE es.levels[i].index - 1
        t == target_index + 1
        es1 == [es EXCEPT !.levels[i].status = "filled"]
    IN  IF ~(0 <= target_index /\ target_index < Len(es.levels)) THEN es1
        ELSE LET a == EngineAdmit(rc, es1.st.open_order_ids, symbol, opposite_side,
                                  es1.levels[t].price)
             IN  IF a = "TypeError" THEN [es1 EXCEPT !.result = "TypeError"]
                 ELSE IF a = "reject" THEN es1
                 ELSE IF ~VenueAccepts(es1.st) THEN [es1 EXCEPT !.result = "venue_error"]
                 ELSE [es1 EXCEPT
                          !.st = PlaceGridOrder(es1.st, symbol, opposite_side,
                                                es1.levels[t].price, target_index),
                          !.levels[t].side = opposite_side,
                          !.levels[t].exchange_order_id = es1.st.next_oid,
                          !.levels[t].status = "order_placed",
                          !.placed = es1.placed + 1]

\* _find_level_by_order_id: the first level holding the id, 0 for None.
FindLevelByOrderId(levels, oid) ==
    IF \E i \in 1..Len(levels) : levels[i].exchange_order_id = oid
    THEN CHOOSE i \in 1..Len(levels) :
            /\ levels[i].exchange_order_id = oid
            /\ \A k \in 1..(i - 1) : levels[k].exchange_order_id # oid
    ELSE 0

RECURSIVE ProcessFills(_, _, _, _)
\* The loop of check_and_process_fills over the filled orders, in the order
\* check_fills returned them; an exception of on_fill ends it.
ProcessFills(es, fills, rc, symbol) ==
    IF fills = <<>> \/ es.result # "ok" THEN es
    ELSE LET i == FindLevelByOrderId(es.levels, Head(fills))
         IN  ProcessFills(IF i = 0 THEN es ELSE OnFill(es, i, rc, symbol),
                          Tail(fills), rc, symbol)

\* check_and_process_fills: check_fills(symbol), then on_fill for every
\* filled order that one of this engine's levels holds.
CheckAndProcessFills(st, levels, fills, rc, symbol) ==
    ProcessFills([st |-> CheckFills(st, symbol), levels |-> levels,
                  placed |-> 0, result |-> "ok"], fills, rc, symbol)

RECURSIVE CancelLoop(_, _, _)
\* The loop of cancel_all_grid_orders from level element i on: every level
\* that is order_placed with an id is cancelled at the venue (answer[id] is
\* what the venue answers) and set to cancelled whatever cancel_order
\* returned; an exception of cancel_order ends the method.
CancelLoop(es, i, answer) ==
    IF i > Len(es.levels) \/ es.result # "ok" THEN es
    ELSE LET level == es.levels[i]
             oid == level.exchange_order_id
         IN  IF ~(level.status = "order_placed" /\ oid # 0)
             THEN CancelLoop(es, i + 1, answer)
             ELSE IF answer[oid] = "error"
             THEN [es EXCEPT !.result = "venue_error"]
             ELSE CancelLoop(
                    [es EXCEPT !.st = CancelOrder(es.st, oid, answer[oid]),
                               !.levels[i].status = "cancelled",
                               !.placed = es.placed + 1],
                    i + 1, answer)

\* cancel_all_grid_orders; placed counts the levels it cancelled.
CancelAllGridOrders(st, levels, answer) ==
    CancelLoop([st |-> st, levels |-> levels, placed |-> 0, result |-> "ok"],
               1, answer)

\* The shift check_trailing decides on for a band and a price: up by
\* range * rebalance_pct / 100 when (price - lower) / range >= trigger_pct / 100,
\* else down by as much when it is <= 1 - trigger_pct / 100, else 0.
ShiftAmount(lower, upper, current_price) ==
    LET grid_range == upper - lower
        amount == (grid_range * TrailingRebalancePct) \div 100
    IN  IF (current_price - lower) * 100 >= TrailingTriggerPct * grid_range
        THEN amount
        ELSE IF (current_price - lower) * 100 <= (100 - TrailingTriggerPct) * grid_range
        THEN -amount
        ELSE 0

\* check_trailing(current_price) at time now on engine e.  Nothing happens
\* when trailing is off, inside the cooldown, when no shift is due or when
\* the new lower bound would not be positive.  Otherwise the placed orders
\* are cancelled, the bounds of the configuration are rewritten and
\* initialize_grid is awaited; only when it has returned are the shift
\* counted and the cooldown started.  The result is [st, e, result, shifted]:
\* result is "true", "false" or the exception that ended the call, shifted
\* tells whether the bounds were rewritten.
CheckTrailing(st, e, rc, symbol, current_price, tk, now, answer) ==
    LET shift_amount == ShiftAmount(e.lower_price, e.upper_price, current_price)
        new_lower == e.lower_price + shift_amount
        new_upper == e.upper_price + shift_amount
        quiet == [st |-> st, e |-> e, result |-> "false", shifted |-> FALSE]
    IN  IF symbol \notin TrailingEnabled THEN quiet
        ELSE IF now - e.last_trailing_shift_time < CooldownSecs THEN quiet
        ELSE IF shift_amount = 0 THEN quiet
        ELSE IF new_lower <= 0 THEN quiet
        ELSE LET cs == CancelAllGridOrders(st, e.levels, answer)
             IN  IF cs.result # "ok"
                 THEN [st |-> cs.st, e |-> [e EXCEPT !.levels = cs.levels],
                       result |-> cs.result, shifted |-> FALSE]
                 ELSE LET es == InitializeGrid(cs.st, rc, symbol, new_lower,
                                               new_upper, tk)
                          e1 == [e EXCEPT !.lower_price = new_lower,
                                          !.upper_price = new_upper,
                                          !.levels = es.levels]
                      IN  IF es.result # "ok"
                          THEN [st |-> es.st, e |-> e1, result |-> es.result,
                                shifted |-> TRUE]
                          ELSE [st |-> es.st,
                                e |-> [e1 EXCEPT
                                        !.trailing_shift_count =
                                            e.trailing_shift_count + 1,
                                        !.last_trailing_shift_time = now],
                                result |-> "true", shifted |-> TRUE]

(***************************************************************************)
(* risk/position_stop_loss.py                                              *)
(***************************************************************************)
\* _triggered_at holds no entry for a symbol.
NoTrigger == -1

\* is_in_cooldown(symbol) at time now: an entry younger than cooldown_secs.
IsInCooldown(trig, symbol, now) ==
    trig[symbol] # NoTrigger /\ now - trig[symbol] < StopCooldownSecs

\* _triggered_at after is_in_cooldown(symbol): an expired entry is deleted.
AfterCooldownTest(trig, symbol, now) ==
    IF trig[symbol] # NoTrigger /\ ~IsInCooldown(trig, symbol, now)
    THEN [trig EXCEPT ![symbol] = NoTrigger]
    ELSE trig

\* should_trigger outside the cooldown: the pair holds base of positive
\* value, unrealized_pnl = (current_price - avg_entry_price) * base_balance
\* is negative and abs(unrealized_pnl / position_value) * 100 >=
\* threshold_pct.  With base_balance = b.n / b.d and avg_entry_price =
\* a.n / a.d (denominators positive) the last test is
\* abs(current_price * a.d - a.n) * 100 >= threshold_pct * a.n.
ShouldTrigger(pair, current_price) ==
    LET b == pair.base_balance
        a == pair.avg_entry_price
    IN  /\ b.n > 0
        /\ b.n * a.n > 0
        /\ (current_price * a.d - a.n) * b.n < 0
        /\ Abs(current_price * a.d - a.n) * 100 >= PositionStopPct * a.n

(***************************************************************************)
(* bot/orchestrator.py                                                     *)
(***************************************************************************)
\* config.grids: the configured pairs, in their order.
Grids == <<"A", "B">>

\* BotOrchestrator.__init__: status idle, no engine registered, no loop task.
\* paper is paper_trading.enabled and grids the pairs of config.grids of the
\* configuration the bot was built with.  starts: the calls of start() that
\* are suspended at their first await; tasks: the _run_loop tasks that were
\* created and have not ended; triggered_at: _triggered_at of the
\* PositionStopLoss the orchestrator holds.
NewOrchestrator(paper) ==
    [status |-> "idle", registered |-> <<>>, paper |-> paper, grids |-> Grids,
     starts |-> 0, tasks |-> 0, triggered_at |-> [s \in Symbols |-> NoTrigger]]

\* grid_capital of start(): total_usd * grid_pct / 100, where total_usd is
\* the configured initial balance with the paper venue and 0.0 with the live
\* venue.  InitialUsd stands for the paper venue's grid capital.
GridCapital(paper) == IF paper THEN InitialUsd ELSE 0

\* The price start() seeds the paper venue with for a pair whose live price
\* it could not fetch: the middle of the configured band.
SeedPrice == (GridLower + GridUpper) \div 2

RECURSIVE ReconcileAll(_, _)
\* The loop of start() over config.grids: reconcile_with_exchange(symbol)
\* for every configured pair, in order, on the one shared order manager.
ReconcileAll(st, grids) ==
    IF grids = <<>> THEN st
    ELSE ReconcileAll(ReconcileWithExchange(st, Head(grids)), Tail(grids))

\* self._grid_engines[symbol] = engine: a new key goes last, an old key
\* keeps its place.
Register(registered, symbol) ==
    IF \E i \in 1..Len(registered) : registered[i] = symbol THEN registered
    ELSE Append(registered, symbol)

RECURSIVE StartEngines(_, _, _, _)
\* The loop of start() that builds one GridEngine per configured pair:
\* initialize_grid is awaited before the engine is registered, so an
\* exception of initialize_grid leaves start() with that engine and the
\* engines of the later pairs unregistered.  r = [st, engines, registered,
\* result]; tk is what get_ticker returns.
StartEngines(r, grids, rc, tk) ==
    IF grids = <<>> \/ r.result # "ok" THEN r
    ELSE LET symbol == Head(grids)
             es == InitializeGrid(r.st, rc, symbol, r.engines[symbol].lower_price,
                                  r.engines[symbol].upper_price, tk[symbol])
         IN  IF es.result # "ok"
             THEN [r EXCEPT !.st = es.st, !.result = es.result]
             ELSE StartEngines(
                    [r EXCEPT !.st = es.st,
                              !.engines[symbol].levels = es.levels,
                              !.engines[symbol].trailing_shift_count = 0,
                              !.engines[symbol].last_trailing_shift_time = 0,
                              !.registered = Register(r.registered, symbol)],
                    Tail(grids), rc, tk)

RECURSIVE StopLoop(_, _, _)
\* The loop of stop() over the registered engines: cancel_all_grid_orders
\* of each; an exception of one leaves stop().  r = [st, engines, result].
StopLoop(r, registered, answer) ==
    IF registered = <<>> \/ r.result # "ok" THEN r
    ELSE LET symbol == Head(registered)
             es == CancelAllGridOrders(r.st, r.engines[symbol].levels, answer)
         IN  StopLoop([st |-> es.st,
                       engines |-> [r.engines EXCEPT ![symbol].levels = es.levels],
                       result |-> es.result],
                      Tail(registered), answer)

(***************************************************************************)
(* The state after construction, and the operations as actions.            *)
(***************************************************************************)
\* What `last` holds: the operation, its symbol, "ok" or what it raised or
\* returned, a count (orders placed, levels cancelled, fills returned), the
\* ids the operation singled out, and the size of the live set before it.
Last(op, symbol, result, n, ids, open_before) ==
    [op |-> op, symbol |-> symbol, result |-> result, n |-> n, ids |-> ids,
     open_before |-> open_before, arg |-> ""]

\* The same with arg: a further argument of the call (the side asked about,
\* the equity fed, the price passed).
LastArg(l, arg) == [l EXCEPT !.arg = arg]

\* The clock when the model starts: later than any cooldown after time 0.
StartClock == CooldownSecs

NewHistory ==
    [fed |-> {}, shifted_at |-> [s \in Symbols |-> -1],
     shift_price |-> [s \in Symbols |-> 0], shift_dir |-> [s \in Symbols |-> 0]]

InitRest ==
    /\ venue = [o \in OrderIds |-> NoOrder]
    /\ next_oid = 1
    /\ ticker \in [Symbols -> TickerPrices]
    /\ journal = [o \in OrderIds |-> NoRow]
    /\ open_order_ids = {}
    /\ risk = NewRisk
    /\ trend_down = {}
    /\ grid_engines = [s \in Symbols |-> NewEngine]
    /\ orch = NewOrchestrator(TRUE)
    /\ call = NoCall
    /\ clock = StartClock
    /\ hist = NewHistory
    /\ last = Last("none", "", "ok", 0, {}, 0)

Init ==
    /\ pool = NewPoolState(InitialUsd)
    /\ pairs = [s \in Symbols |-> NewPairState]
    /\ buy_fees = RInt(0)
    /\ nfills = 0
    /\ InitRest

\* The manager state an operation leaves behind.
SetManagerState(st) ==
    /\ venue' = st.venue
    /\ next_oid' = st.next_oid
    /\ journal' = st.journal
    /\ open_order_ids' = st.open_order_ids

\* The venue fills an open order whole (the paper venue when the price
\* crosses the order's limit, the live venue whenever a counterparty trades).
VenueFill(o) ==
    /\ venue[o].status = "open"
    /\ venue' = [venue EXCEPT ![o].status = "closed"]
    /\ last' = Last("venue_fill", venue[o].symbol, "ok", 0, {o},
                    OpenOrderCount(open_order_ids))
    /\ UNCHANGED <<call, orch, clock, hist, trackerVars, next_oid, ticker, managerVars, risk, trend_down,
                   grid_engines>>

\* The trend filter's verdict for a symbol changes.
TrendChange(symbol) ==
    /\ trend_down' = IF symbol \in trend_down THEN trend_down \ {symbol}
                     ELSE trend_down \cup {symbol}
    /\ last' = Last("trend_change", symbol, "ok", 0, {},
                    OpenOrderCount(open_order_ids))
    /\ UNCHANGED <<call, orch, clock, hist, trackerVars, venueVars, managerVars, risk, grid_engines>>

\* The grid levels for which place_grid_order is called directly: the
\* lowest and the highest.
PlacedLevels == {0, NumLevels - 1}

\* OrderManager.place_grid_order called for a level of the symbol's grid,
\* with the price and side the lattice gives the level.
MgrPlaceGridOrder(symbol, level) ==
    /\ IF VenueAccepts(ManagerState)
       THEN /\ SetManagerState(PlaceGridOrder(ManagerState, symbol,
                    NewLevels(ticker[symbol])[level + 1].side,
                    NewLevels(ticker[symbol])[level + 1].price, level))
            /\ last' = Last("place_grid_order", symbol, "ok", 1, {next_oid},
                            OpenOrderCount(open_order_ids))
       ELSE /\ UNCHANGED <<venue, next_oid, managerVars>>
            /\ last' = Last("place_grid_order", symbol, "venue_error", 0, {},
                            OpenOrderCount(open_order_ids))
    /\ UNCHANGED <<call, orch, clock, hist, trackerVars, ticker, risk, trend_down, grid_engines>>

\* OrderManager.check_fills(symbol); ids: the filled orders it returns.
MgrCheckFills(symbol) ==
    /\ SetManagerState(CheckFills(ManagerState, symbol))
    /\ last' = Last("check_fills", symbol, "ok",
                    Cardinality(FilledIds(ManagerState, symbol)),
                    FilledIds(ManagerState, symbol), OpenOrderCount(open_order_ids))
    /\ UNCHANGED <<call, orch, clock, hist, trackerVars, ticker, risk, trend_down, grid_engines>>

\* OrderManager.cancel_order(oid, symbol) for an order of the journal.
MgrCancelOrder(oid, answer) ==
    /\ journal[oid].status # "none"
    /\ answer \in CancelAnswers(venue, oid)
    /\ IF answer = "error"
       THEN UNCHANGED <<venue, next_oid, managerVars>>
       ELSE SetManagerState(CancelOrder(ManagerState, oid, answer))
    /\ last' = Last("cancel_order", venue[oid].symbol,
                    IF answer = "error" THEN "venue_error" ELSE answer,
                    0, {oid}, OpenOrderCount(open_order_ids))
    /\ UNCHANGED <<call, orch, clock, hist, trackerVars, ticker, risk, trend_down, grid_engines>>

\* OrderManager.reconcile_with_exchange(symbol); ids: the stale ids.
MgrReconcileWithExchange(symbol) ==
    /\ SetManagerState(ReconcileWithExchange(ManagerState, symbol))
    /\ last' = Last("reconcile", symbol, "ok", 0,
                    open_order_ids \ VenueOpenIds(venue, symbol),
                    OpenOrderCount(open_order_ids))
    /\ UNCHANGED <<call, orch, clock, hist, trackerVars, ticker, risk, trend_down, grid_engines>>

\* RiskManager.can_place_order(symbol, side, price) called with the price of
\* a grid level and the default amount; arg: the side.
RiskCanPlaceOrder(symbol, side, level) ==
    /\ last' = LastArg(Last("can_place_order", symbol,
                    IF CanPlaceOrder(RiskContext, open_order_ids, symbol, side,
                          RInt(ComputeGridLevels(GridLower, GridUpper, NumLevels)[level + 1]),
                          RInt(0))
                    THEN "true" ELSE "false",
                    0, {}, OpenOrderCount(open_order_ids)), side)
    /\ UNCHANGED <<call, orch, clock, hist, trackerVars, venueVars, managerVars, risk, trend_down, grid_engines>>

\* RiskManager.check_stop_loss(symbol, current_price, lower_grid).
RiskCheckStopLoss(symbol, price) ==
    /\ risk' = IF StopLossHit(price, GridLower)
               THEN [risk EXCEPT !.halted_pairs = risk.halted_pairs \cup {symbol}]
               ELSE risk
    /\ last' = LastArg(Last("check_stop_loss", symbol,
                    IF StopLossHit(price, GridLower) THEN "true" ELSE "false",
                    0, {}, OpenOrderCount(open_order_ids)), price)
    /\ UNCHANGED <<call, orch, clock, hist, trackerVars, venueVars, managerVars, trend_down, grid_engines>>

\* RiskManager.check_take_profit(symbol, current_price, upper_grid).
RiskCheckTakeProfit(symbol, price) ==
    /\ risk' = IF TakeProfitHit(price, GridUpper)
               THEN [risk EXCEPT !.halted_pairs = risk.halted_pairs \cup {symbol}]
               ELSE risk
    /\ last' = LastArg(Last("check_take_profit", symbol,
                    IF TakeProfitHit(price, GridUpper) THEN "true" ELSE "false",
                    0, {}, OpenOrderCount(open_order_ids)), price)
    /\ UNCHANGED <<call, orch, clock, hist, trackerVars, venueVars, managerVars, trend_down, grid_engines>>

\* RiskManager.check_drawdown(current_equity); arg: the equity fed.
RiskCheckDrawdown(equity) ==
    /\ risk' = CheckDrawdown(risk, equity)
    /\ hist' = [hist EXCEPT !.fed = hist.fed \cup {equity}]
    /\ last' = LastArg(Last("check_drawdown", "",
                    IF DrawdownHit(risk, equity) THEN "true" ELSE "false",
                    0, {}, OpenOrderCount(open_order_ids)), equity)
    /\ UNCHANGED <<call, orch, clock, trackerVars, venueVars, managerVars, trend_down, grid_engines>>

\* RiskManager.reset_halt.
RiskResetHalt ==
    /\ risk' = ResetHalt(risk)
    /\ last' = Last("reset_halt", "", "ok", 0, {}, OpenOrderCount(open_order_ids))
    /\ UNCHANGED <<call, orch, clock, hist, trackerVars, venueVars, managerVars, trend_down, grid_engines>>

\* GridEngine.initialize_grid of the engine of a symbol; n: the orders it
\* placed.
EngInitializeGrid(symbol) ==
    LET es == InitializeGrid(ManagerState, RiskContext, symbol,
                             grid_engines[symbol].lower_price,
                             grid_engines[symbol].upper_price, ticker[symbol])
    IN  /\ SetManagerState(es.st)
        /\ grid_engines' = [grid_engines EXCEPT ![symbol].levels = es.levels]
        /\ last' = Last("initialize_grid", symbol, es.result, es.placed, {},
                        OpenOrderCount(open_order_ids))
        /\ UNCHANGED <<call, orch, clock, hist, trackerVars, ticker, risk, trend_down>>

\* The orders in which a set of ids may come out of a Python set.
Orderings(ids) ==
    {f \in [1..Cardinality(ids) -> ids] :
        \A i, k \in 1..Cardinality(ids) : i # k => f[i] # f[k]}

\* GridEngine.check_and_process_fills of the engine of a symbol; ids: the
\* filled orders check_fills returned, n: the orders placed as mirrors.
EngCheckAndProcessFills(symbol, fills) ==
    /\ fills \in Orderings(FilledIds(ManagerState, symbol))
    /\ LET es == CheckAndProcessFills(ManagerState, grid_engines[symbol].levels,
                                      fills, RiskContext, symbol)
       IN  /\ SetManagerState(es.st)
           /\ grid_engines' = [grid_engines EXCEPT ![symbol].levels = es.levels]
           /\ last' = Last("check_and_process_fills", symbol, es.result,
                           es.placed, FilledIds(ManagerState, symbol),
                           OpenOrderCount(open_order_ids))
    /\ UNCHANGED <<call, orch, clock, hist, trackerVars, ticker, risk, trend_down>>

\* GridEngine.on_fill(level) of the engine of a symbol, for the level with
\* index i of its lattice; arg: the index, n: the mirror orders placed.
EngOnFill(symbol, i) ==
    /\ i + 1 \in 1..Len(grid_engines[symbol].levels)
    /\ LET es == OnFill([st |-> ManagerState, levels |-> grid_engines[symbol].levels,
                         placed |-> 0, result |-> "ok"], i + 1, RiskContext, symbol)
       IN  /\ SetManagerState(es.st)
           /\ grid_engines' = [grid_engines EXCEPT ![symbol].levels = es.levels]
           /\ last' = LastArg(Last("on_fill", symbol, es.result, es.placed, {},
                                   OpenOrderCount(open_order_ids)), i)
    /\ UNCHANGED <<call, orch, clock, hist, trackerVars, ticker, risk, trend_down>>

\* The ids cancel_all_grid_orders asks the venue to cancel.
PlacedIds(levels) ==
    {levels[i].exchange_order_id : i \in
        {k \in 1..Len(levels) : levels[k].status = "order_placed"
                                /\ levels[k].exchange_order_id # 0}}

\* GridEngine.cancel_all_grid_orders of the engine of a symbol; answer: what
\* the venue answers to each cancel request; n: the levels cancelled.
EngCancelAllGridOrders(symbol, answer) ==
    /\ \A o \in OrderIds :
          IF o \in PlacedIds(grid_engines[symbol].levels)
          THEN answer[o] \in CancelAnswers(venue, o)
          ELSE answer[o] = "ok"
    /\ LET es == CancelAllGridOrders(ManagerState, grid_engines[symbol].levels, answer)
       IN  /\ SetManagerState(es.st)
           /\ grid_engines' = [grid_engines EXCEPT ![symbol].levels = es.levels]
           /\ last' = Last("cancel_all_grid_orders", symbol, es.result, es.placed,
                           PlacedIds(grid_engines[symbol].levels),
                           OpenOrderCount(open_order_ids))
    /\ UNCHANGED <<call, orch, clock, hist, trackerVars, ticker, risk, trend_down>>

\* GridEngine.check_trailing(current_price) of the engine of a symbol, while
\* its band is not above MaxUpper; arg: the price, n: 1 when the bounds were
\* rewritten.
EngCheckTrailing(symbol, price, answer) ==
    /\ grid_engines[symbol].upper_price <= MaxUpper
    /\ \A o \in OrderIds :
          IF o \in PlacedIds(grid_engines[symbol].levels)
          THEN answer[o] \in CancelAnswers(venue, o)
          ELSE answer[o] = "ok"
    /\ LET r == CheckTrailing(ManagerState, grid_engines[symbol], RiskContext,
                              symbol, price, ticker[symbol], clock, answer)
       IN  /\ SetManagerState(r.st)
           /\ grid_engines' = [grid_engines EXCEPT ![symbol] = r.e]
           /\ hist' = IF r.shifted
                      THEN [hist EXCEPT
                              !.shifted_at[symbol] = clock,
                              !.shift_price[symbol] = price,
                              !.shift_dir[symbol] =
                                  IF r.e.lower_price > grid_engines[symbol].lower_price
                                  THEN 1 ELSE -1]
                      ELSE hist
           /\ last' = LastArg(Last("check_trailing", symbol, r.result,
                                   IF r.shifted THEN 1 ELSE 0,
                                   PlacedIds(grid_engines[symbol].levels),
                                   OpenOrderCount(open_order_ids)), price)
    /\ UNCHANGED <<call, orch, clock, trackerVars, ticker, risk, trend_down>>

\* A call of a method of the live connector begins.
AdapterCall(method) ==
    /\ call.status # "running"
    /\ call' = [NoCall EXCEPT !.method = method, !.status = "running"]
    /\ last' = Last("adapter_call", "", "ok", 0, {}, OpenOrderCount(open_order_ids))
    /\ UNCHANGED <<orch, clock, hist, trackerVars, venueVars, managerVars, risk,
                   trend_down, grid_engines>>

\* The venue answers the attempt in flight; n: the attempts made so far.
AdapterAttempt(outcome) ==
    /\ call.status = "running"
    /\ outcome \in AttemptOutcomes(call.method)
    /\ call' = WrapperPass(call, outcome)
    /\ last' = Last("adapter_attempt", "", outcome, call.attempts + 1, {},
                    OpenOrderCount(open_order_ids))
    /\ UNCHANGED <<orch, clock, hist, trackerVars, venueVars, managerVars, risk,
                   trend_down, grid_engines>>

\* The venue's last price of a symbol changes.
PriceMove(symbol, price) ==
    /\ ticker[symbol] # price
    /\ ticker' = [ticker EXCEPT ![symbol] = price]
    /\ last' = LastArg(Last("price_move", symbol, "ok", 0, {},
                             OpenOrderCount(open_order_ids)), price)
    /\ UNCHANGED <<call, orch, clock, hist, trackerVars, venue, next_oid,
                   managerVars, risk, trend_down, grid_engines>>

\* MultiPairPositionTracker.update_unrealized_pnl(symbol).
TrkUpdateUnrealizedPnl(symbol) ==
    /\ pairs' = UpdateUnrealizedPnl(pairs, symbol, ticker[symbol])
    /\ last' = Last("update_unrealized_pnl", symbol, "ok", 0, {},
                    OpenOrderCount(open_order_ids))
    /\ UNCHANGED <<call, orch, clock, hist, pool, buy_fees, nfills, venueVars,
                   managerVars, risk, trend_down, grid_engines>>

\* The whole number a rational with denominator 1 stands for.
Whole(x) == x.n \div x.d

\* check_drawdown fed with the tracker's total_equity_usd, as the loop's
\* global checks feed it when no momentum and no dip tracker is configured.
CheckDrawdownOnEquity == RiskCheckDrawdown(Whole(TotalEquityUsd(pool, pairs)))

\* The per-pair step of the loop for the engine of a symbol, at the venue's
\* last price, with no pair paused by the rotator.  Inside the stop-loss
\* cooldown the pair is skipped.  When the stop-loss triggers, the engine's
\* orders are cancelled and execute_stop_loss sells the pair's base at
\* market (sold: the venue fills the order, or the call raises and
\* execute_stop_loss returns false); the fill is recorded and the cooldown
\* starts.  Otherwise, for a pair without trailing, check_stop_loss and
\* check_take_profit against the engine's band, each cancelling the engine's
\* orders when it halts the pair; then check_and_process_fills, with
\* update_unrealized_pnl when it returned fills; then, for a pair with
\* trailing, check_trailing.  An exception ends the step where it is raised.
LoopPairStep(symbol, sold, fills, cs, rf, es, ct) ==
    LET now == clock
        current_price == ticker[symbol]
        e == grid_engines[symbol]
        trig == AfterCooldownTest(orch.triggered_at, symbol, now)
        base == [st |-> ManagerState, e |-> e, pool |-> pool, pairs |-> pairs,
                 nfills |-> nfills, risk |-> risk, trig |-> trig, result |-> "ok"]
        cancelled == [base EXCEPT !.st = cs.st, !.e.levels = cs.levels,
                                  !.result = cs.result]
        halted == [risk EXCEPT !.halted_pairs = risk.halted_pairs \cup {symbol}]
        filled == [base EXCEPT !.st = es.st, !.e.levels = es.levels,
                               !.result = es.result]
        f1 == IF Len(fills) > 0
              THEN [filled EXCEPT !.pairs =
                      UpdateUnrealizedPnl(pairs, symbol, current_price)]
              ELSE filled
    IN  IF IsInCooldown(orch.triggered_at, symbol, now)
        THEN [base EXCEPT !.result = "cooldown"]
        ELSE IF ShouldTrigger(pairs[symbol], current_price)
        THEN IF cs.result # "ok" THEN cancelled
             ELSE IF sold # "ok"
             THEN [cancelled EXCEPT !.result = "stop_loss_failed"]
             ELSE [cancelled EXCEPT !.pool = rf.pool, !.pairs = rf.pairs,
                                    !.nfills = nfills + 1,
                                    !.trig[symbol] = now,
                                    !.result = "stop_loss"]
        ELSE IF symbol \notin TrailingEnabled
                /\ StopLossHit(current_price, e.lower_price)
        THEN [cancelled EXCEPT !.risk = halted,
                 !.result = IF cs.result = "ok" THEN "stop_loss_pair" ELSE cs.result]
        ELSE IF symbol \notin TrailingEnabled
                /\ TakeProfitHit(current_price, e.upper_price)
        THEN [cancelled EXCEPT !.risk = halted,
                 !.result = IF cs.result = "ok" THEN "take_profit_pair" ELSE cs.result]
        ELSE IF es.result # "ok" THEN filled
        ELSE IF symbol \notin TrailingEnabled THEN f1
        ELSE [f1 EXCEPT !.st = ct.st, !.e = ct.e,
                 !.result = IF ct.result \in {"true", "false"}
                            THEN "ok" ELSE ct.result]

\* One per-pair step of the loop; result: what the step came to.  cs: what
\* cancel_all_grid_orders does, rf: the tracker after the fill of the market
\* sale (as it is, when the stop-loss does not trigger), es: what check_and_process_fills does, ct: what check_trailing does
\* after it.
LoopPair(symbol, answer, sold, fills, fee) ==
    /\ grid_engines[symbol].upper_price <= MaxUpper
    /\ \A o \in OrderIds :
          IF o \in PlacedIds(grid_engines[symbol].levels)
          THEN answer[o] \in CancelAnswers(venue, o)
          ELSE answer[o] = "ok"
    /\ fills \in Orderings(FilledIds(ManagerState, symbol))
    /\ \E cs \in {CancelAllGridOrders(ManagerState, grid_engines[symbol].levels,
                                       answer)},
          rf \in {IF ShouldTrigger(pairs[symbol], ticker[symbol])
                  THEN RecordFill(pool, pairs, symbol, "sell",
                                  pairs[symbol].base_balance,
                                  RInt(ticker[symbol]), RInt(fee))
                  ELSE [pool |-> pool, pairs |-> pairs]},
          es \in {CheckAndProcessFills(ManagerState, grid_engines[symbol].levels,
                                       fills, RiskContext, symbol)} :
         \E ct \in {CheckTrailing(es.st,
                                  [grid_engines[symbol] EXCEPT !.levels = es.levels],
                                  RiskContext, symbol, ticker[symbol],
                                  ticker[symbol], clock, answer)} :
           \E r \in {LoopPairStep(symbol, sold, fills, cs, rf, es, ct)} :
             /\ SetManagerState(r.st)
             /\ grid_engines' = [grid_engines EXCEPT ![symbol] = r.e]
             /\ pool' = r.pool
             /\ pairs' = r.pairs
             /\ nfills' = r.nfills
             /\ risk' = r.risk
             /\ orch' = [orch EXCEPT !.triggered_at = r.trig]
             /\ last' = LastArg(Last("loop_pair", symbol, r.result, 0, {},
                                     OpenOrderCount(open_order_ids)), ticker[symbol])
    /\ UNCHANGED <<call, clock, hist, buy_fees, ticker, trend_down>>

\* A second passes.
Tick ==
    /\ clock < StartClock + ClockSteps
    /\ clock' = clock + 1
    /\ last' = Last("tick", "", "ok", 0, {}, OpenOrderCount(open_order_ids))
    /\ UNCHANGED <<call, orch, hist, trackerVars, venueVars, managerVars, risk, trend_down,
                   grid_engines>>

\* BotOrchestrator.start(), on a bot that is not running (the dashboard
\* refuses to start a running bot).  The journal (the database file) is the
\* one the earlier run wrote.  The live venue still holds its orders; a paper
\* venue is built anew, holds no order, and is seeded with the middle of each
\* pair's band (the case in which no live price could be fetched).  The order
\* manager, the position tracker, the trend filter and the risk manager are
\* built anew; then every configured pair is reconciled and every pair's
\* engine is built and initialized.  The loop task is created, and the
\* status set to running, only when all of that has returned; an exception
\* of initialize_grid leaves start() with status starting.  n: the engines
\* registered; ids: the ids that left the live set.  bot: the orchestrator as
\* the call finds it when it goes on.
StartRest(bot) ==
    /\ LET v0 == IF orch.paper THEN [o \in OrderIds |-> NoOrder] ELSE venue
           st0 == [venue |-> v0, next_oid |-> next_oid, journal |-> journal,
                   open_order_ids |-> {}]
           st1 == ReconcileAll(st0, bot.grids)
           tk == IF orch.paper THEN [s \in Symbols |-> SeedPrice] ELSE ticker
           rc == [risk |-> NewRisk, trend_down |-> {},
                  pool |-> NewPoolState(GridCapital(orch.paper)),
                  pairs |-> [s \in Symbols |-> NewPairState]]
           r == StartEngines([st |-> st1, engines |-> grid_engines,
                              registered |-> bot.registered, result |-> "ok"],
                             bot.grids, rc, tk)
       IN  /\ SetManagerState(r.st)
           /\ ticker' = tk
           /\ pool' = rc.pool
           /\ pairs' = rc.pairs
           /\ buy_fees' = RInt(0)
           /\ nfills' = 0
           /\ risk' = rc.risk
           /\ hist' = [hist EXCEPT !.fed = {}]
           /\ clock' = clock
           /\ call' = call
           /\ trend_down' = rc.trend_down
           /\ grid_engines' = r.engines
           /\ orch' = [bot EXCEPT
                         !.status = IF r.result = "ok" THEN "running" ELSE @,
                         !.registered = r.registered,
                         !.triggered_at = [s \in Symbols |-> NoTrigger],
                         !.tasks = IF r.result = "ok" THEN @ + 1 ELSE @]
           /\ last' = Last("start", "", r.result, Len(r.registered),
                           open_order_ids \ r.st.open_order_ids,
                           OpenOrderCount(open_order_ids))

\* start() called once and run to its end with no other call in between.
OrchStart ==
    /\ orch.status # "running"
    /\ StartRest([orch EXCEPT !.status = "starting"])

\* POST /start of the dashboard: refused only when the status is running;
\* then start() up to its first await (status starting, the shutdown event
\* cleared, the database connection awaited).
StartRequest ==
    /\ orch.status # "running"
    /\ orch.starts < MaxStarts
    /\ orch' = [orch EXCEPT !.status = "starting", !.starts = @ + 1]
    /\ last' = Last("start_request", "", "ok", orch.starts + 1, {},
                    OpenOrderCount(open_order_ids))
    /\ UNCHANGED <<call, clock, hist, trackerVars, venueVars, managerVars, risk,
                   trend_down, grid_engines>>

\* A suspended start() goes on to its end.
StartResume ==
    /\ orch.starts > 0
    /\ StartRest([orch EXCEPT !.starts = @ - 1])

\* The ids stop() asks the venue to cancel.
StopIds ==
    UNION {PlacedIds(grid_engines[orch.registered[i]].levels) :
              i \in 1..Len(orch.registered)}

\* BotOrchestrator.stop() on a bot that start() was called on: status
\* stopping, the loop task (if start() created one) cancelled and awaited,
\* cancel_all_grid_orders of every registered engine, the adapter and the
\* journal closed, status stopped.  An exception of a cancel leaves stop()
\* with status stopping.  The shutdown event is set before the task is
\* cancelled: a loop that start() no longer refers to ends at its next test
\* of the event, which is counted here as ended with the stop.
OrchStop(answer) ==
    /\ orch.status # "idle"
    /\ \A o \in OrderIds :
          IF o \in StopIds THEN answer[o] \in CancelAnswers(venue, o)
          ELSE answer[o] = "ok"
    /\ LET r == StopLoop([st |-> ManagerState, engines |-> grid_engines,
                          result |-> "ok"], orch.registered, answer)
       IN  /\ SetManagerState(r.st)
           /\ grid_engines' = r.engines
           /\ orch' = [orch EXCEPT
                         !.status = IF r.result = "ok" THEN "stopped" ELSE "stopping",
                         !.tasks = 0]
           /\ last' = Last("stop", "", r.result, 0, StopIds,
                           OpenOrderCount(open_order_ids))
    /\ UNCHANGED <<call, clock, hist, trackerVars, ticker, risk, trend_down>>

(***************************************************************************)
(* Spec: the engines of the pairs over the one shared order manager and    *)
(* the venue.                                                              *)
(***************************************************************************)
Next ==
    \/ \E o \in OrderIds : VenueFill(o)
    \/ \E symbol \in Symbols, level \in PlacedLevels : MgrPlaceGridOrder(symbol, level)
    \/ \E symbol \in Symbols : EngInitializeGrid(symbol)
    \/ \E symbol \in Symbols, fills \in UNION {Orderings(S) : S \in SUBSET OrderIds} :
          EngCheckAndProcessFills(symbol, fills)
    \/ \E symbol \in Symbols, answer \in [OrderIds -> {"ok", "not_found", "error"}] :
          EngCancelAllGridOrders(symbol, answer)

Spec == Init /\ [][Next]_vars

(***************************************************************************)
(* SpecMgr: the order manager and the venue.                               *)
(***************************************************************************)
\* The venue's prices play no part in the manager's operations: they stay
\* at the lowest of the ticker prices.
InitMgr ==
    /\ Init
    /\ \A s \in Symbols : \A p \in TickerPrices : ticker[s] <= p

NextMgr ==
    \/ \E o \in OrderIds : VenueFill(o)
    \/ \E symbol \in Symbols, level \in PlacedLevels : MgrPlaceGridOrder(symbol, level)
    \/ \E symbol \in Symbols : MgrCheckFills(symbol)
    \/ \E o \in OrderIds, answer \in {"ok", "not_found", "error"} :
          MgrCancelOrder(o, answer)
    \/ \E symbol \in Symbols : MgrReconcileWithExchange(symbol)

SpecMgr == InitMgr /\ [][NextMgr]_vars

(***************************************************************************)
(* SpecRisk: the risk manager and the engines it is to gate.               *)
(***************************************************************************)
NextRisk ==
    \/ \E symbol \in Symbols : TrendChange(symbol)
    \/ \E symbol \in Symbols, side \in Sides, level \in PlacedLevels :
          RiskCanPlaceOrder(symbol, side, level)
    \/ \E symbol \in Symbols, price \in CheckPrices : RiskCheckStopLoss(symbol, price)
    \/ \E symbol \in Symbols, price \in CheckPrices : RiskCheckTakeProfit(symbol, price)
    \/ \E equity \in Equities : RiskCheckDrawdown(equity)
    \/ RiskResetHalt
    \/ \E symbol \in Symbols : EngInitializeGrid(symbol)
    \/ \E symbol \in Symbols, fills \in UNION {Orderings(S) : S \in SUBSET OrderIds} :
          EngCheckAndProcessFills(symbol, fills)

SpecRisk == Init /\ [][NextRisk]_vars

(***************************************************************************)
(* SpecTrail: the engines' trailing check as time passes.                  *)
(***************************************************************************)
NextTrail ==
    \/ Tick
    \/ \E symbol \in Symbols, price \in TrailPrices,
          answer \in [OrderIds -> {"ok", "not_found", "error"}] :
          EngCheckTrailing(symbol, price, answer)

SpecTrail == Init /\ [][NextTrail]_vars

(***************************************************************************)
(* SpecOnFill: on_fill on the levels of an initialized grid, under the     *)
(* verdicts of the risk manager.                                           *)
(***************************************************************************)
NextOnFill ==
    \/ \E symbol \in Symbols : TrendChange(symbol)
    \/ \E symbol \in Symbols, price \in CheckPrices : RiskCheckStopLoss(symbol, price)
    \/ \E symbol \in Symbols : EngInitializeGrid(symbol)
    \/ \E symbol \in Symbols, i \in 0..(NumLevels - 1) : EngOnFill(symbol, i)

SpecOnFill == InitMgr /\ [][NextOnFill]_vars

(***************************************************************************)
(* SpecRetry: the calls of the live connector and the venue's answers.     *)
(***************************************************************************)
NextRetry ==
    \/ \E method \in AdapterMethods : AdapterCall(method)
    \/ \E outcome \in {"ok", "network", "other", "not_found"} : AdapterAttempt(outcome)

SpecRetry == InitMgr /\ [][NextRetry]_vars

(***************************************************************************)
(* SpecFills: any sequence of record_fill calls on a fresh tracker.        *)
(***************************************************************************)
InitFills ==
    /\ pool = NewPoolState(InitialUsd)
    /\ pairs = [s \in Symbols |-> NewPairState]
    /\ buy_fees = RInt(0)
    /\ nfills = 0
    /\ InitRest

\* One call record_fill(symbol, side, amount, price, fee).  A sell is a fill
\* of base the pair holds: every caller sells an amount the venue delivered
\* (paper_connector.py:215, position_stop_loss.py:86, pair_rotator.py:129).
Fill(symbol, side, amount, price, fee) ==
    /\ nfills < MaxFills
    /\ side = "sell" => RGeq(pairs[symbol].base_balance, RInt(amount))
    /\ LET r == RecordFill(pool, pairs, symbol, side,
                           RInt(amount), RInt(price), RInt(fee))
       IN  /\ pool' = r.pool
           /\ pairs' = r.pairs
    /\ buy_fees' = IF side = "buy" THEN RAdd(buy_fees, RInt(fee)) ELSE buy_fees
    /\ nfills' = nfills + 1
    /\ UNCHANGED <<call, orch, clock, hist, venueVars, managerVars, risk, trend_down,
                   grid_engines, last>>

NextFills ==
    \E symbol \in Symbols, side \in Sides, amount \in FillAmounts,
       price \in FillPrices, fee \in FillFees :
        Fill(symbol, side, amount, price, fee)

SpecFills == InitFills /\ [][NextFills]_vars

(***************************************************************************)
(* SpecOrch: start() and stop() of the orchestrator over what an earlier   *)
(* run left behind.  Before start() the order manager places orders and    *)
(* the tracker records fills (the earlier run); the venue fills orders at  *)
(* any time.                                                               *)
(***************************************************************************)
\* The fills the earlier run records.
OrchFillAmounts == {1}
OrchFillFees == {1}

InitOrch ==
    /\ orch \in {NewOrchestrator(paper) : paper \in BOOLEAN}
    /\ pool = NewPoolState(GridCapital(orch.paper))
    /\ pairs = [s \in Symbols |-> NewPairState]
    /\ buy_fees = RInt(0)
    /\ nfills = 0
    /\ venue = [o \in OrderIds |-> NoOrder]
    /\ next_oid = 1
    /\ ticker \in [Symbols -> TickerPrices]
    /\ \A s \in Symbols : \A p \in TickerPrices : ticker[s] <= p
    /\ journal = [o \in OrderIds |-> NoRow]
    /\ open_order_ids = {}
    /\ risk = NewRisk
    /\ trend_down = {}
    /\ grid_engines = [s \in Symbols |-> NewEngine]
    /\ call = NoCall
    /\ clock = StartClock
    /\ hist = NewHistory
    /\ last = Last("none", "", "ok", 0, {}, 0)

NextOrch ==
    \/ \E o \in OrderIds : VenueFill(o)
    \/ /\ orch.status = "idle"
       /\ \E symbol \in Symbols, level \in PlacedLevels :
             MgrPlaceGridOrder(symbol, level)
    \/ /\ orch.status = "idle"
       /\ \E symbol \in Symbols, side \in Sides, amount \in OrchFillAmounts,
             price \in FillPrices, fee \in OrchFillFees :
             Fill(symbol, side, amount, price, fee)
    \/ OrchStart
    \/ \E answer \in [OrderIds -> {"ok", "not_found", "error"}] : OrchStop(answer)

SpecOrch == InitOrch /\ [][NextOrch]_vars

Min(a, b) == IF a < b THEN a ELSE b
Max(a, b) == IF a > b THEN a ELSE b

\* C2 (as stated): every order of pair P that fills at the venue is delivered
\* to P's own engine; so the filled orders an engine's check_and_process_fills
\* takes from the shared manager (and thereby removes from the live set for
\* good) are all orders of that engine's own pair.
C2_FillsGoToOwnEngine ==
    last.op = "check_and_process_fills" =>
        \A o \in last.ids : venue[o].symbol = last.symbol

(***************************************************************************)
(* C4.  The per-pair halt.                                                 *)
(***************************************************************************)
\* C4 (as stated): while a pair is halted by check_stop_loss or
\* check_take_profit, initialize_grid of the halted pair places no order, and
\* initialize_grid of a pair that is not halted (with no global halt) is
\* still admitted: its admission calls return an answer and the method ends
\* without an error.
C4_OnlyHaltedPairBlocked ==
    (last.op = "initialize_grid" /\ risk.halted_pairs # {}) =>
        /\ last.symbol \in risk.halted_pairs => last.n = 0
        /\ (last.symbol \notin risk.halted_pairs /\ ~risk.is_halted)
               => last.result = "ok"

(***************************************************************************)
(* C5.  The global halt.                                                   *)
(***************************************************************************)
\* C5: a check_drawdown that returns true sets the global halt; while it is
\* set (until reset_halt), can_place_order is false for every symbol, side
\* and level price, a can_place_order call returns false, and an engine
\* operation places no order.
C5_GlobalHaltRejectsAll ==
    /\ (last.op = "check_drawdown" /\ last.result = "true") => risk.is_halted
    /\ risk.is_halted =>
        /\ \A symbol \in Symbols, side \in Sides, i \in 1..NumLevels :
              ~CanPlaceOrder(RiskContext, open_order_ids, symbol, side,
                  RInt(ComputeGridLevels(GridLower, GridUpper, NumLevels)[i]),
                  RInt(0))
        /\ last.op = "can_place_order" => last.result = "false"
        /\ last.op \in {"initialize_grid", "check_and_process_fills"} => last.n = 0

\* C5 witness: the global halt is set and can_place_order has just been
\* asked about a pair that is not halted by itself, with room for orders.
C5_Witness ==
    /\ risk.is_halted
    /\ last.op = "can_place_order"
    /\ last.symbol \notin risk.halted_pairs
    /\ last.open_before < MaxOpenOrders

(***************************************************************************)
(* C7.  What initialize_grid places.                                       *)
(***************************************************************************)
\* C7 (as stated): initialize_grid on n levels with max_open_orders m and k
\* orders live raises no error, places exactly min(n, max(0, m - k)) orders
\* and leaves every other level pending.
C7_PlacesUpToLimit ==
    last.op = "initialize_grid" =>
        /\ last.result = "ok"
        /\ last.n = Min(NumLevels, Max(0, MaxOpenOrders - last.open_before))
        /\ Cardinality({i \in 1..Len(grid_engines[last.symbol].levels) :
                          grid_engines[last.symbol].levels[i].status = "pending"})
              = NumLevels - last.n

(***************************************************************************)
(* C9.  cancel_all_grid_orders.                                            *)
(***************************************************************************)
\* C9 (as stated): after cancel_all_grid_orders returns on an engine, no
\* order id held by a level of that engine is live and every level of the
\* engine has status cancelled, whatever the statuses were before.
C9_AllLevelsCancelled ==
    (last.op = "cancel_all_grid_orders" /\ last.result = "ok") =>
        \A i \in 1..Len(grid_engines[last.symbol].levels) :
            /\ grid_engines[last.symbol].levels[i].status = "cancelled"
            /\ grid_engines[last.symbol].levels[i].exchange_order_id \notin open_order_ids

(***************************************************************************)
(* C10.  reconcile_with_exchange.                                          *)
(***************************************************************************)
\* C10: after reconcile_with_exchange(symbol) the live set is exactly the set
\* of ids the venue reports open for the symbol, every id that was live and
\* is not in the venue's report has its journal row cancelled, and a second
\* reconcile of the symbol would leave the live set as it is.
C10_ReconcileReplacesLiveSet ==
    last.op = "reconcile" =>
        /\ open_order_ids = VenueOpenIds(venue, last.symbol)
        /\ \A o \in last.ids : journal[o].status = "cancelled"
        /\ ReconcileWithExchange(ManagerState, last.symbol).open_order_ids = open_order_ids

\* C10 witness: a reconcile has found a stale id (a live id the venue did
\* not report) and has kept an id the venue did report.
C10_Witness ==
    /\ last.op = "reconcile"
    /\ last.ids # {}
    /\ open_order_ids # {}

(***************************************************************************)
(* C11.  Startup reconciliation and the journal.                           *)
(***************************************************************************)
\* C11 (as stated): after start() on a journal left by an earlier run, no
\* journal row is left in status open for an order the venue does not report
\* open: startup reconciliation has set every such row to cancelled.
C11_StartupCancelsMissing ==
    last.op = "start" =>
        \A o \in OrderIds : journal[o].status = "open" => venue[o].status = "open"

(***************************************************************************)
(* C13.  The tracker across a restart.                                     *)
(***************************************************************************)
\* C13 (as stated): a start() after a stop or a crash leaves the pool state
\* (available, secured profits, total fees, trade count) and every pair
\* state (base balance, average entry, realized P&L, trade count) as they
\* were before it.
C13_RestartKeepsTracker ==
    [][(last.op # "start" /\ last'.op = "start")
          => (pool' = pool /\ pairs' = pairs)]_vars

(***************************************************************************)
(* C16.  What stop() leaves at the venue.                                  *)
(***************************************************************************)
\* C16 (as stated): after stop() has returned with status stopped, no order
\* placed through the bot's order manager is open at the venue and
\* open_order_count is 0.
C16_StopLeavesNothingOpen ==
    (last.op = "stop" /\ orch.status = "stopped") =>
        /\ \A o \in OrderIds : venue[o].status # "open"
        /\ OpenOrderCount(open_order_ids) = 0

(***************************************************************************)
(* C18.  A failing level in initialize_grid.                               *)
(***************************************************************************)
\* C18 (as stated): a failure while placing the order of one level leaves
\* that level pending and does not end initialize_grid: the method goes on
\* to the remaining levels and returns normally, every level pending or
\* order_placed.
C18_InitSurvivesLevelFailure ==
    last.op = "initialize_grid" =>
        /\ last.result = "ok"
        /\ \A i \in 1..Len(grid_engines[last.symbol].levels) :
              grid_engines[last.symbol].levels[i].status \in {"pending", "order_placed"}

(***************************************************************************)
(* C21.  The trend filter.                                                 *)
(***************************************************************************)
\* The level prices can_place_order is asked about.
LevelPrices == {ComputeGridLevels(GridLower, GridUpper, NumLevels)[i] : i \in 1..NumLevels}

\* The verdict of can_place_order in the present state, were the trend
\* filter's set of pairs in a downtrend td.
VerdictUnderTrend(td, symbol, side, price) ==
    CanPlaceOrder([RiskContext EXCEPT !.trend_down = td], open_order_ids,
                  symbol, side, RInt(price), RInt(0))

\* C21: while the trend of a symbol is DOWN, can_place_order is false for a
\* buy of it at every level price, a can_place_order call for a buy of it
\* returns false, and initialize_grid leaves no buy level of it with an order;
\* the verdict for a sell is the same whatever the trends are.
C21_NoBuyInDowntrend ==
    /\ \A symbol \in trend_down, price \in LevelPrices :
          ~VerdictUnderTrend(trend_down, symbol, "buy", price)
    /\ (last.op = "can_place_order" /\ last.symbol \in trend_down)
          => (last.arg = "buy" => last.result = "false")
    /\ (last.op = "initialize_grid" /\ last.symbol \in trend_down)
          => \A i \in 1..Len(grid_engines[last.symbol].levels) :
                grid_engines[last.symbol].levels[i].side = "buy"
                    => grid_engines[last.symbol].levels[i].status # "order_placed"
    /\ \A symbol \in Symbols, price \in LevelPrices, td \in SUBSET Symbols :
          VerdictUnderTrend(td, symbol, "sell", price)
              = VerdictUnderTrend(trend_down, symbol, "sell", price)

\* C21 witness: can_place_order has just refused a buy of a pair in a
\* downtrend that it would have admitted without the downtrend, while a sell
\* of the same pair is admitted.
C21_Witness ==
    /\ last.op = "can_place_order"
    /\ last.arg = "buy"
    /\ last.result = "false"
    /\ last.symbol \in trend_down
    /\ \E price \in LevelPrices :
          /\ VerdictUnderTrend({}, last.symbol, "buy", price)
          /\ VerdictUnderTrend(trend_down, last.symbol, "sell", price)

(***************************************************************************)
(* C23.  Fills and the position tracker.                                   *)
(***************************************************************************)
\* C23 (as stated): when check_and_process_fills has returned, every order
\* the journal holds as filled has been applied to the tracker by exactly
\* one record_fill: the tracker has counted as many trades as orders filled.
C23_FillsRecordedOnce ==
    last.op = "check_and_process_fills" =>
        pool.total_trade_count
            = Cardinality({o \in OrderIds : journal[o].status = "filled"})

(***************************************************************************)
(* C27.  check_drawdown.                                                   *)
(***************************************************************************)
\* The largest of a non-empty set of numbers.
MaxOf(S) == CHOOSE x \in S : \A y \in S : y <= x

\* C27: a check_drawdown call returns true if and only if the peak, the
\* largest equity fed so far with the present one, is positive and
\* (peak - cur) / peak * 100 >= max_drawdown_pct; after a call that returned
\* true the global halt is set, and a call that returns false leaves the
\* global halt as it was.
C27_DrawdownVerdict ==
    /\ [](last.op = "check_drawdown" =>
            LET cur == last.arg
                peak == MaxOf(hist.fed)
            IN  /\ cur \in hist.fed
                /\ (last.result = "true")
                     <=> (peak > 0 /\ (peak - cur) * 100 >= MaxDrawdownPct * peak)
                /\ last.result = "true" => risk.is_halted)
    /\ [][(last'.op = "check_drawdown" /\ last'.result = "false")
             => risk'.is_halted = risk.is_halted]_vars

\* C27 witness: check_drawdown has just returned true for a positive equity
\* below an earlier peak, and the halt is set.
C27_Witness ==
    /\ last.op = "check_drawdown"
    /\ last.result = "true"
    /\ last.arg > 0
    /\ MaxOf(hist.fed) > last.arg
    /\ risk.is_halted

(***************************************************************************)
(* C25.  Terminal order statuses.                                          *)
(***************************************************************************)
\* C25 (as stated): once an order is closed or cancelled at the venue and its
\* journal row is filled or cancelled, no step (cancel_order, check_fills,
\* reconcile_with_exchange, a fill by the venue) changes either status.
C25_TerminalStatusStays ==
    [][\A o \in OrderIds :
          (/\ venue[o].status \in {"closed", "cancelled"}
           /\ journal[o].status \in {"filled", "cancelled"})
              => (/\ venue'[o].status = venue[o].status
                  /\ journal'[o].status = journal[o].status)]_vars

(***************************************************************************)
(* C26.  cancel_order and an order the venue does not find.                *)
(***************************************************************************)
\* C26 (as stated): a cancel_order call that the venue answers, by cancelling
\* the order or by reporting it as not found, returns true ("ok"), leaves the
\* journal row cancelled and the id out of the live set.
C26_CancelNotFoundIsTrue ==
    (last.op = "cancel_order" /\ last.result # "venue_error") =>
        /\ last.result = "ok"
        /\ \A o \in last.ids :
              journal[o].status = "cancelled" /\ o \notin open_order_ids

(***************************************************************************)
(* C28, C29.  The trailing grid.                                           *)
(***************************************************************************)
\* C28 (as stated): a check_trailing call with trailing enabled and outside
\* the cooldown moves both bounds up by range * rebalance / 100 when
\* (price - lower) / range >= trigger / 100, down by as much when it is
\* <= 1 - trigger / 100 and the new lower bound is positive, and not at all
\* otherwise; the range stays, and every shift adds exactly 1 to
\* trailing_shift_count.
C28_ShiftRule ==
    [][(/\ last'.op = "check_trailing"
        /\ last'.symbol \in TrailingEnabled
        /\ clock - grid_engines[last'.symbol].last_trailing_shift_time >= CooldownSecs)
       => LET e == grid_engines[last'.symbol]
              f == grid_engines'[last'.symbol]
              grid_range == e.upper_price - e.lower_price
              amount == (grid_range * TrailingRebalancePct) \div 100
              pos100 == (last'.arg - e.lower_price) * 100
              up == pos100 >= TrailingTriggerPct * grid_range
              down == /\ ~up
                      /\ pos100 <= (100 - TrailingTriggerPct) * grid_range
                      /\ e.lower_price - amount > 0
              moved == IF up THEN amount ELSE IF down THEN -amount ELSE 0
          IN  /\ f.lower_price = e.lower_price + moved
              /\ f.upper_price = e.upper_price + moved
              /\ f.trailing_shift_count
                    = e.trailing_shift_count + (IF moved # 0 THEN 1 ELSE 0)]_vars

\* C29 (as stated): a check_trailing call made less than cooldown_secs after
\* the engine's last shift of its bounds returns false and leaves the
\* engine (bounds, levels, shift count) and the live orders as they were.
C29_CooldownSuppresses ==
    [][(/\ last'.op = "check_trailing"
        /\ hist.shifted_at[last'.symbol] >= 0
        /\ clock - hist.shifted_at[last'.symbol] < CooldownSecs)
       => (/\ last'.result = "false"
           /\ grid_engines'[last'.symbol] = grid_engines[last'.symbol]
           /\ open_order_ids' = open_order_ids)]_vars

C35_StartupKeepsAllPairs ==
    last.op = "start" =>
        \A o \in OrderIds : venue[o].status = "open" => o \in open_order_ids

(***************************************************************************)
(* C36.  Live orders and the levels that hold them.                        *)
(***************************************************************************)
\* The levels of the symbol's engine that hold order o with status placed.
HoldingLevels(o, symbol) ==
    {i \in 1..Len(grid_engines[symbol].levels) :
        /\ grid_engines[symbol].levels[i].exchange_order_id = o
        /\ grid_engines[symbol].levels[i].status = "order_placed"}

\* C36 (as stated): once the bot has been started, every id of the live set
\* is held by exactly one placed level of the engine of the order's symbol.
C36_NoOrphanLiveOrder ==
    orch.status # "idle" =>
        \A o \in open_order_ids :
            Cardinality(HoldingLevels(o, venue[o].symbol)) = 1

(***************************************************************************)
(* C38.  The trailing grid at a price that stays.                          *)
(***************************************************************************)
\* C38 (as stated): when check_trailing has shifted the grid for a price, a
\* check_trailing for the same price, made when the cooldown since that
\* shift has passed, does not shift the grid in the opposite direction.
C38_NoOscillation ==
    [][(/\ last'.op = "check_trailing"
        /\ hist.shifted_at[last'.symbol] >= 0
        /\ hist.shift_price[last'.symbol] = last'.arg
        /\ clock - hist.shifted_at[last'.symbol] >= CooldownSecs)
       => (grid_engines'[last'.symbol].lower_price
              - grid_engines[last'.symbol].lower_price)
            * hist.shift_dir[last'.symbol] >= 0]_vars

(***************************************************************************)
(* C32, C34.  on_fill and the mirror order.                                *)
(***************************************************************************)
\* The element of the lattice on_fill takes as the mirror of element i: the
\* next one up after a buy, the next one down after a sell.
MirrorOf(levels, i) == IF levels[i].side = "buy" THEN i + 1 ELSE i - 1

OppositeSide(side) == IF side = "buy" THEN "sell" ELSE "buy"

\* What can_place_order answers, in the present state, for the mirror of
\* element i of the symbol's lattice.
MirrorAdmitted(symbol, i) ==
    LET levels == grid_engines[symbol].levels
    IN  CanPlaceOrder(RiskContext, open_order_ids, symbol,
                      OppositeSide(levels[i].side),
                      RInt(levels[MirrorOf(levels, i)].price), RInt(0))

\* C32 (as stated): on_fill on the level with index i marks it filled; when
\* the mirror index is in the grid (and the risk manager admits the order
\* and the venue takes it) it places exactly one order of the opposite side
\* at the mirror level's price and gives that level the side, the order id
\* and status placed; when the mirror index is outside the grid it places
\* no order and changes no other level.
C32_OnFillMirrors ==
    [][last'.op = "on_fill" =>
        LET symbol == last'.symbol
            i == last'.arg + 1
            old == grid_engines[symbol].levels
            new == grid_engines'[symbol].levels
            t == MirrorOf(old, i)
        IN  /\ new[i].status = "filled"
            /\ (t \in 1..Len(old) /\ MirrorAdmitted(symbol, i) /\ VenueAccepts(ManagerState))
                  => /\ last'.result = "ok"
                     /\ last'.n = 1
                     /\ next_oid' = next_oid + 1
                     /\ venue'[next_oid].status = "open"
                     /\ venue'[next_oid].side = OppositeSide(old[i].side)
                     /\ venue'[next_oid].price = old[t].price
                     /\ new[t].side = OppositeSide(old[i].side)
                     /\ new[t].exchange_order_id = next_oid
                     /\ new[t].status = "order_placed"
            /\ t \notin 1..Len(old)
                  => /\ last'.result = "ok"
                     /\ last'.n = 0
                     /\ venue' = venue
                     /\ \A k \in 1..Len(old) : k # i => new[k] = old[k]]_vars

\* C34 (as stated): when the risk manager refuses the mirror of an on_fill,
\* no order is placed, no error is raised, the filled level is filled and
\* the mirror level is left as it was.
C34_RefusedMirrorIsDropped ==
    [][last'.op = "on_fill" =>
        LET symbol == last'.symbol
            i == last'.arg + 1
            old == grid_engines[symbol].levels
            new == grid_engines'[symbol].levels
            t == MirrorOf(old, i)
        IN  (t \in 1..Len(old) /\ ~MirrorAdmitted(symbol, i))
              => /\ last'.result = "ok"
                 /\ last'.n = 0
                 /\ venue' = venue
                 /\ open_order_ids' = open_order_ids
                 /\ new[i].status = "filled"
                 /\ new[t] = old[t]]_vars

(***************************************************************************)
(* C31.  The retries of an adapter call.                                   *)
(***************************************************************************)
\* C31 (as stated): one adapter call makes at most 3 attempts at the venue,
\* and an error that is not a transient network or service error ends the
\* call at once: a call that has met such an error has raised.
C31_AtMostThreeAttempts ==
    /\ call.attempts <= 3
    /\ "other" \in call.errors => call.status = "raised"


(***************************************************************************)
(* SpecStart: the dashboard's start and stop requests on a bot whose       *)
(* configuration names the pairs of Grids or no pair at all (schema.py     *)
(* accepts an empty grids list).  A start() is suspended at its awaits, so *)
(* another request can be served before it goes on.                        *)
(***************************************************************************)
InitStart ==
    /\ orch \in {[NewOrchestrator(paper) EXCEPT !.grids = g] :
                    paper \in BOOLEAN, g \in {<<>>, Grids}}
    /\ pool = NewPoolState(GridCapital(orch.paper))
    /\ pairs = [s \in Symbols |-> NewPairState]
    /\ buy_fees = RInt(0)
    /\ nfills = 0
    /\ venue = [o \in OrderIds |-> NoOrder]
    /\ next_oid = 1
    /\ ticker \in [Symbols -> TickerPrices]
    /\ \A s \in Symbols : \A p \in TickerPrices : ticker[s] <= p
    /\ journal = [o \in OrderIds |-> NoRow]
    /\ open_order_ids = {}
    /\ risk = NewRisk
    /\ trend_down = {}
    /\ grid_engines = [s \in Symbols |-> NewEngine]
    /\ call = NoCall
    /\ clock = StartClock
    /\ hist = NewHistory
    /\ last = Last("none", "", "ok", 0, {}, 0)

NextStart ==
    \/ /\ orch.status = "idle"
       /\ \E symbol \in Symbols, level \in PlacedLevels :
             MgrPlaceGridOrder(symbol, level)
    \/ StartRequest
    \/ StartResume
    \/ \E answer \in [OrderIds -> {"ok", "not_found", "error"}] : OrchStop(answer)

SpecStart == InitStart /\ [][NextStart]_vars

(***************************************************************************)
(* C37.  At most one run-loop task is active at any time, also when start  *)
(* is requested again while the status is starting.                        *)
(***************************************************************************)
\* C37: the number of _run_loop tasks that were created and have not ended
\* never exceeds one.
C37_OneLoopTask == orch.tasks <= 1


(***************************************************************************)
(* SpecEquity: the tracker records fills, the venue's last prices move,    *)
(* update_unrealized_pnl is called for a pair (by the loop after a fill of *)
(* the pair, at any time by another caller), and check_drawdown is fed     *)
(* with the tracker's total_equity_usd.                                    *)
(***************************************************************************)
InitEquity ==
    /\ pool = NewPoolState(InitialUsd)
    /\ pairs = [s \in Symbols |-> NewPairState]
    /\ buy_fees = RInt(0)
    /\ nfills = 0
    /\ venue = [o \in OrderIds |-> NoOrder]
    /\ next_oid = 1
    /\ ticker = [s \in Symbols |-> EntryPrice]
    /\ journal = [o \in OrderIds |-> NoRow]
    /\ open_order_ids = {}
    /\ risk = NewRisk
    /\ trend_down = {}
    /\ grid_engines = [s \in Symbols |-> NewEngine]
    /\ orch = NewOrchestrator(TRUE)
    /\ call = NoCall
    /\ clock = StartClock
    /\ hist = NewHistory
    /\ last = Last("none", "", "ok", 0, {}, 0)

NextEquity ==
    \/ \E symbol \in HeldSymbols, side \in Sides, amount \in OrchFillAmounts,
          price \in MovePrices, fee \in OrchFillFees :
          /\ price = ticker[symbol]
          /\ side = "buy" => price = EntryPrice
          /\ Fill(symbol, side, amount, price, fee)
    \/ \E symbol \in HeldSymbols, price \in MovePrices : PriceMove(symbol, price)
    \/ \E symbol \in HeldSymbols : TrkUpdateUnrealizedPnl(symbol)
    \/ CheckDrawdownOnEquity

SpecEquity == InitEquity /\ [][NextEquity]_vars

(***************************************************************************)
(* C40.  The equity the drawdown check sees.                               *)
(***************************************************************************)
\* available_usd + secured_profits + the sum over pairs of base_balance times
\* the venue's last price.
MarkedEquity ==
    Whole(RAdd(RAdd(pool.available_usd, pool.secured_profits),
               RSum([s \in Symbols |->
                        RMul(pairs[s].base_balance, RInt(ticker[s]))], Symbols)))

\* C40: a check_drawdown call of the loop is fed with available + secured +
\* the sum of base_balance * current price, and sets the global halt when
\* that value is max_drawdown_pct or more below the running peak, whether or
\* not update_unrealized_pnl ran for the pairs since their prices moved.
C40_DrawdownAtCurrentPrice ==
    [][(last'.op = "check_drawdown" /\ nfills' = nfills) =>
          /\ last'.arg = MarkedEquity
          /\ (/\ risk'.peak_equity > 0
              /\ (risk'.peak_equity - MarkedEquity) * 100
                     >= MaxDrawdownPct * risk'.peak_equity)
                => risk'.is_halted]_vars


(***************************************************************************)
(* SpecLoop: the loop's per-pair step over the engines, the tracker and    *)
(* the position stop-loss, while a pair is bought, the venue's last prices *)
(* move and time passes.  SpecLoopFair: the step is taken again and again  *)
(* for every pair, and time passes.                                        *)
(***************************************************************************)
InitPairLoop ==
    /\ pool = NewPoolState(LoopUsd)
    /\ pairs = [s \in Symbols |-> NewPairState]
    /\ buy_fees = RInt(0)
    /\ nfills = 0
    /\ venue = [o \in OrderIds |-> NoOrder]
    /\ next_oid = 1
    /\ ticker = [s \in Symbols |-> LoopEntryPrice]
    /\ journal = [o \in OrderIds |-> NoRow]
    /\ open_order_ids = {}
    /\ risk = NewRisk
    /\ trend_down = {}
    /\ grid_engines = [s \in Symbols |-> NewEngine]
    /\ orch = NewOrchestrator(TRUE)
    /\ call = NoCall
    /\ clock = StartClock
    /\ hist = NewHistory
    /\ last = Last("none", "", "ok", 0, {}, 0)

\* What the venue may answer to the cancel requests of the engine of a
\* symbol.
LoopAnswers(symbol) ==
    {answer \in [OrderIds -> {"ok", "not_found", "error"}] :
        \A o \in OrderIds :
            IF o \in PlacedIds(grid_engines[symbol].levels)
            THEN answer[o] \in CancelAnswers(venue, o)
            ELSE answer[o] = "ok"}

LoopPairOf(symbol) ==
    \E answer \in LoopAnswers(symbol), sold \in {"ok", "error"},
       fee \in OrchFillFees, fills \in Orderings(FilledIds(ManagerState, symbol)) :
        LoopPair(symbol, answer, sold, fills, fee)

NextLoop ==
    \/ \E symbol \in LoopHeld, amount \in OrchFillAmounts, fee \in OrchFillFees :
          /\ ticker[symbol] = LoopEntryPrice
          /\ Fill(symbol, "buy", amount, LoopEntryPrice, fee)
    \/ \E symbol \in LoopHeld, price \in TickerPrices : PriceMove(symbol, price)
    \/ Tick
    \/ \E symbol \in Symbols : LoopPairOf(symbol)

SpecLoop == InitPairLoop /\ [][NextLoop]_vars

SpecLoopFair ==
    /\ SpecLoop
    /\ WF_vars(Tick)
    /\ \A symbol \in Symbols : WF_vars(LoopPairOf(symbol))

(***************************************************************************)
(* C39.  Trading after a position stop-loss.                               *)
(***************************************************************************)
\* The pair has an order in the live set.
HasLiveOrder(symbol) ==
    \E o \in open_order_ids : venue[o].symbol = symbol

\* C39: once the position stop-loss of a pair has been executed and its
\* cooldown has expired, the pair comes to have a live order again, unless
\* the price leaves the pair's band.
C39_TradingResumes ==
    \A symbol \in Symbols :
        (/\ orch.triggered_at[symbol] # NoTrigger
         /\ clock - orch.triggered_at[symbol] >= StopCooldownSecs)
            ~> (\/ HasLiveOrder(symbol)
                \/ ticker[symbol] < grid_engines[symbol].lower_price
                \/ ticker[symbol] > grid_engines[symbol].upper_price)

=============================================================================
